---- MODULE Spec2Model ----
(***************************************************************************)
(* A model of common/membership/rpServiceResolver.go: the ringpop-backed   *)
(* ServiceResolver.  One resolver instance (one ring, one listener         *)
(* registry, two sync.RWMutex) is driven by an owner goroutine             *)
(* (Start/Stop), caller goroutines (Lookup/AddListener/RemoveListener)     *)
(* and handler goroutines that ringpop spawns per event (HandleEvent =     *)
(* refresh ; emitEvent).  Every lock operation and every statement that    *)
(* touches shared state is one step.                                       *)
(***************************************************************************)
EXTENDS Integers, Sequences, FiniteSets, TLC

(* ------------------------------ bounds -------------------------------- *)
\* how many membership changes the gossip layer makes in one behaviour
MaxChanges == 2
\* how many times ringpop delivers an event a second time
MaxExtra == 1
\* how many calls of Lookup, AddListener and RemoveListener are made
MaxCalls == 2
\* buffer size the callers give their notification channels
ChanCap == 1

(* ----------------------------- universe ------------------------------- *)
RoleKey == "serviceName"
Service == "search"
\* cluster members and the service each one labels itself with
Members == {"A", "B", "Z"}
RoleOf(m) == IF m = "Z" THEN "other" ELSE Service
\* the members that are up when the resolver is built, and those that stay up
InitiallyUp == {"A", "Z"}
Stable == {"Z"}
Keys == {"k1", "k2"}
Names == {"x", "y"}
Chans == {"ch1", "ch2"}
Owner == "o"
Callers == {"c1"}
Handlers == {"h1", "h2"}
Threads == {Owner} \cup Callers \cup Handlers
None == "none"
Nil == "nil"
ErrInsufficientHosts == "ErrInsufficientHosts"
ErrListenerAlreadyExist == "ErrListenerAlreadyExist"
ErrFetch == "ErrFetch"

VARIABLES
  ring,        \* r.ring: the addresses in the hash ring
  ringLock,    \* r.ringLock: [w: writer or None, r: set of readers]
  listeners,   \* r.listeners: name -> channel
  listenerLock,\* r.listenerLock
  chans,       \* the callers' buffered channels: channel -> queued events
  reachable,   \* ringpop: the reachable members of the whole cluster
  subscribed,  \* ringpop: whether r is among rp's listeners
  pending,     \* ringpop: events whose HandleEvent goroutine has not run yet
  pc,          \* each goroutine's position
  loc,         \* each goroutine's arguments and locals
  crashed,     \* logger.Panic was reached
  seq,         \* ringpop: how many membership changes have happened
  extra,       \* ringpop: how many events it has delivered twice
  calls,       \* how many calls the callers have made
  hist         \* history: what has happened so far (read by the properties only)

vars == <<ring, ringLock, listeners, listenerLock, chans, reachable, subscribed,
          pending, pc, loc, crashed, seq, extra, calls, hist>>

(* ------------------------- values and helpers ------------------------- *)
\* r.getLabelsMap(): a fresh map holding the resolver's role
getLabelsMap == (RoleKey :> Service)

\* NewHostInfo(addr, labels)
NewHostInfo(addr, labels) == [addr |-> addr, labels |-> labels]

\* farm.Fingerprint32 on the strings of the model: a fixed, injective table
Fingerprint32(s) ==
  CASE s = "k1" -> 1 [] s = "A" -> 2 [] s = "k2" -> 4 [] s = "B" -> 5
    [] s = "Z" -> 7 [] OTHER -> 0

\* hashring.Lookup with one replica point per server: the server whose point
\* is the first at or after the key's hash, wrapping to the smallest point;
\* not found exactly when the ring holds no server.
RingLookup(members, key) ==
  IF members = {} THEN [addr |-> "", found |-> FALSE]
  ELSE LET h == Fingerprint32(key)
           after == {m \in members : Fingerprint32(m) >= h}
           from == IF after = {} THEN members ELSE after
           m == CHOOSE x \in from : \A y \in from : Fingerprint32(x) <= Fingerprint32(y)
       IN [addr |-> m, found |-> TRUE]

\* what Lookup returns for a key on a ring: the host and nil, or no host and
\* ErrInsufficientHosts when the ring finds nothing
\* (a *HostInfo is the set of what it points to: {} is the nil pointer)
LookupValueAnyway(members, key) ==
  [host |-> {NewHostInfo(RingLookup(members, key).addr, getLabelsMap)}, err |-> Nil]
LookupValue(members, key) ==
  LET a == RingLookup(members, key)
  IN IF ~a.found THEN [host |-> {}, err |-> ErrInsufficientHosts]
     ELSE [host |-> {NewHostInfo(a.addr, getLabelsMap)}, err |-> Nil]

\* rp.GetReachableMembers(swim.MemberWithLabelAndValue(RoleKey, r.service))
GetReachableMembersUnfiltered(svc) == reachable
GetReachableMembers(svc) == {m \in reachable : RoleOf(m) = svc}

\* the addresses of a set in the order ringpop reports them (by address)
RECURSIVE InOrder(_)
InOrder(S) ==
  IF S = {} THEN <<>>
  ELSE LET m == CHOOSE x \in S : \A y \in S : Fingerprint32(x) <= Fingerprint32(y)
       IN <<m>> \o InOrder(S \ {m})

Range(f) == {f[x] : x \in DOMAIN f}

\* the zero values of events.RingChangedEvent and of ChangedEvent
NoEvent ==
  [id |-> 0, kind |-> "none", ServersAdded |-> <<>>, ServersRemoved |-> <<>>,
   ServersUpdated |-> <<>>]
NoChange == [HostsAdded |-> <<>>, HostsRemoved |-> <<>>, HostsUpdated |-> <<>>]

\* a goroutine's locals when it runs nothing (res: the error it returns;
\* host: the *HostInfo Lookup returns beside it)
NoLoc == [key |-> Nil, name |-> Nil, ch |-> Nil, addrs |-> {}, got |-> {},
          ev |-> NoEvent, out |-> NoChange, todo |-> {}, res |-> Nil, host |-> {}]

FreeLock == [w |-> None, r |-> {}]

\* make(map[string]chan<- *ChangedEvent)
EmptyMap == [n \in {} |-> Nil]

Goto(t, p) == pc' = [pc EXCEPT ![t] = p]

\* sync.RWMutex.Lock, first half: take the writer mutex, which also turns new
\* readers away; the caller goes on at once when no reader is inside.
CanLock(l) == l.w = None
Locked(l, t) == [l EXCEPT !.w = t]
\* second half: the readers inside have left
CanEnter(l, t) == l.w = t /\ l.r = {}
\* sync.RWMutex.RLock: blocked while a writer holds or waits
CanRLock(l) == l.w = None
RLocked(l, t) == [l EXCEPT !.r = @ \cup {t}]
RUnlocked(l, t) == [l EXCEPT !.r = @ \ {t}]
Unlocked(l) == [l EXCEPT !.w = None]

(* ------------------------------- Init --------------------------------- *)
\* newRingpopServiceResolver: an empty ring, an empty registry; the cluster
\* may already have any members
Init ==
  /\ ring = {}
  /\ ringLock = FreeLock
  /\ listeners = EmptyMap
  /\ listenerLock = FreeLock
  /\ chans = [c \in Chans |-> <<>>]
  /\ reachable = InitiallyUp
  /\ subscribed = FALSE
  /\ pending = {}
  /\ pc = [t \in Threads |-> "idle"]
  /\ loc = [t \in Threads |-> NoLoc]
  /\ crashed = FALSE
  /\ seq = 0
  /\ extra = 0
  /\ calls = 0
  /\ hist = [snap |-> {}, done |-> {}, emitted |-> {},
             removedAt |-> [m \in Members |-> 0], stopChans |-> {}, reReg |-> {},
             ignored |-> FALSE, refreshed |-> {}, sent |-> {}, removed |-> {}]

Running(t, p) == ~crashed /\ pc[t] = p
\* the ring as the last exclusive holder of ringLock left it
Commit == hist' = [hist EXCEPT !.snap = ring]

(* ------------------------------ Lookup -------------------------------- *)
LookupCall(t, k) ==
  /\ Running(t, "idle") /\ t \in Callers /\ calls < MaxCalls
  /\ calls' = calls + 1
  /\ Goto(t, "lk_rlock")
  /\ loc' = [loc EXCEPT ![t].key = k]
  /\ UNCHANGED <<ring, ringLock, listeners, listenerLock, chans, reachable,
                 subscribed, pending, crashed, seq, extra, hist>>

\* (a Lookup that does not wait for the writer)
LookupRLockNoWait(t) ==
  /\ Running(t, "lk_rlock")
  /\ ringLock' = RLocked(ringLock, t)
  /\ Goto(t, "lk_read")
  /\ UNCHANGED <<ring, listeners, listenerLock, chans, reachable, subscribed,
                 pending, loc, crashed, seq, extra, calls, hist>>

\* r.ringLock.RLock()
LookupRLock(t) ==
  /\ Running(t, "lk_rlock")
  /\ CanRLock(ringLock)
  /\ ringLock' = RLocked(ringLock, t)
  /\ Goto(t, "lk_read")
  /\ UNCHANGED <<ring, listeners, listenerLock, chans, reachable, subscribed,
                 pending, loc, crashed, seq, extra, calls, hist>>

\* addr, found := r.ring.Lookup(key) and the value the return statement builds
LookupRead(t) ==
  /\ Running(t, "lk_read")
  /\ Goto(t, "lk_ret")
  /\ loc' = [loc EXCEPT ![t].res = LookupValue(ring, loc[t].key).err,
                        ![t].host = LookupValue(ring, loc[t].key).host]
  /\ UNCHANGED <<ring, ringLock, listeners, listenerLock, chans, reachable,
                 subscribed, pending, crashed, seq, extra, calls, hist>>

\* the two values Lookup is about to return
Returned(t) == [host |-> loc[t].host, err |-> loc[t].res]

\* the deferred r.ringLock.RUnlock() and the return
LookupReturn(t) ==
  /\ Running(t, "lk_ret")
  /\ ringLock' = RUnlocked(ringLock, t)
  /\ Goto(t, "idle")
  /\ loc' = [loc EXCEPT ![t] = NoLoc]
  /\ UNCHANGED <<ring, listeners, listenerLock, chans, reachable, subscribed,
                 pending, crashed, seq, extra, calls, hist>>

(* ---------------------------- AddListener ----------------------------- *)
AddListenerCall(t, n, c) ==
  /\ Running(t, "idle") /\ t \in Callers /\ calls < MaxCalls
  /\ calls' = calls + 1
  /\ Goto(t, "al_lock")
  /\ loc' = [loc EXCEPT ![t].name = n, ![t].ch = c]
  /\ UNCHANGED <<ring, ringLock, listeners, listenerLock, chans, reachable,
                 subscribed, pending, crashed, seq, extra, hist>>

\* r.listenerLock.Lock()
AddListenerLock(t) ==
  /\ \/ Running(t, "al_lock") /\ CanLock(listenerLock)
        /\ listenerLock' = Locked(listenerLock, t)
        /\ Goto(t, IF listenerLock.r = {} THEN "al_body" ELSE "al_wait")
     \/ Running(t, "al_wait") /\ CanEnter(listenerLock, t)
        /\ listenerLock' = listenerLock
        /\ Goto(t, "al_body")
  /\ UNCHANGED <<ring, ringLock, listeners, chans, reachable, subscribed,
                 pending, loc, crashed, seq, extra, calls, hist>>

\* (an AddListener that stores the channel before it reports the duplicate)
AddListenerBodyOverwrite(t) ==
  /\ Running(t, "al_body")
  /\ IF loc[t].name \in DOMAIN listeners
     THEN /\ loc' = [loc EXCEPT ![t].res = ErrListenerAlreadyExist]
          /\ listeners' = [listeners EXCEPT ![loc[t].name] = loc[t].ch]
          /\ UNCHANGED <<calls, hist>>
     ELSE /\ listeners' = (loc[t].name :> loc[t].ch) @@ listeners
          /\ loc' = [loc EXCEPT ![t].res = Nil]
          /\ hist' = [hist EXCEPT
               !.reReg = IF pc[Owner] = "stopped" THEN @ \cup {loc[t].ch} ELSE @,
               !.removed = {a \in @ : a.name # loc[t].name /\ a.ch # loc[t].ch}]
  /\ Goto(t, "al_ret")
  /\ UNCHANGED <<ring, ringLock, listenerLock, chans, reachable, subscribed,
                 pending, crashed, seq, extra, calls>>

\* the lookup of the name and, when it is free, r.listeners[name] = notifyChannel
AddListenerBody(t) ==
  /\ Running(t, "al_body")
  /\ IF loc[t].name \in DOMAIN listeners
     THEN /\ loc' = [loc EXCEPT ![t].res = ErrListenerAlreadyExist]
          /\ UNCHANGED <<listeners, calls, hist>>
     ELSE /\ listeners' = (loc[t].name :> loc[t].ch) @@ listeners
          /\ loc' = [loc EXCEPT ![t].res = Nil]
          /\ hist' = [hist EXCEPT
               !.reReg = IF pc[Owner] = "stopped" THEN @ \cup {loc[t].ch} ELSE @,
               !.removed = {a \in @ : a.name # loc[t].name /\ a.ch # loc[t].ch}]
  /\ Goto(t, "al_ret")
  /\ UNCHANGED <<ring, ringLock, listenerLock, chans, reachable, subscribed,
                 pending, crashed, seq, extra, calls>>

\* the deferred r.listenerLock.Unlock() and the return
AddListenerReturn(t) ==
  /\ Running(t, "al_ret")
  /\ listenerLock' = Unlocked(listenerLock)
  /\ Goto(t, "idle")
  /\ loc' = [loc EXCEPT ![t] = NoLoc]
  /\ UNCHANGED <<ring, ringLock, listeners, chans, reachable, subscribed,
                 pending, crashed, seq, extra, calls, hist>>

(* --------------------------- RemoveListener --------------------------- *)
RemoveListenerCall(t, n) ==
  /\ Running(t, "idle") /\ t \in Callers /\ calls < MaxCalls
  /\ calls' = calls + 1
  /\ Goto(t, "rl_lock")
  /\ loc' = [loc EXCEPT ![t].name = n]
  /\ UNCHANGED <<ring, ringLock, listeners, listenerLock, chans, reachable,
                 subscribed, pending, crashed, seq, extra, hist>>

\* r.listenerLock.Lock()
RemoveListenerLock(t) ==
  /\ \/ Running(t, "rl_lock") /\ CanLock(listenerLock)
        /\ listenerLock' = Locked(listenerLock, t)
        /\ Goto(t, IF listenerLock.r = {} THEN "rl_body" ELSE "rl_wait")
     \/ Running(t, "rl_wait") /\ CanEnter(listenerLock, t)
        /\ listenerLock' = listenerLock
        /\ Goto(t, "rl_body")
  /\ UNCHANGED <<ring, ringLock, listeners, chans, reachable, subscribed,
                 pending, loc, crashed, seq, extra, calls, hist>>

\* history: the registration that goroutine t's RemoveListener finds
Removal(t) ==
  IF loc[t].name \in DOMAIN listeners
  THEN {[name |-> loc[t].name, ch |-> listeners[loc[t].name]]}
  ELSE {}

\* (a RemoveListener that finds the name and returns without the delete)
RemoveListenerBodyNoDelete(t) ==
  /\ Running(t, "rl_body")
  /\ listeners' = listeners
  /\ loc' = [loc EXCEPT ![t].res = Nil]
  /\ Goto(t, "rl_ret")
  /\ hist' = [hist EXCEPT !.removed = @ \cup Removal(t)]
  /\ UNCHANGED <<ring, ringLock, listenerLock, chans, reachable, subscribed,
                 pending, crashed, seq, extra, calls>>

\* (a RemoveListener that drops the whole registry)
RemoveListenerBodyClearAll(t) ==
  /\ Running(t, "rl_body")
  /\ listeners' = EmptyMap
  /\ loc' = [loc EXCEPT ![t].res = Nil]
  /\ Goto(t, "rl_ret")
  /\ hist' = [hist EXCEPT !.removed = @ \cup Removal(t)]
  /\ UNCHANGED <<ring, ringLock, listenerLock, chans, reachable, subscribed,
                 pending, crashed, seq, extra, calls>>

\* the lookup of the name and, when it is there, delete(r.listeners, name)
RemoveListenerBody(t) ==
  /\ Running(t, "rl_body")
  /\ listeners' = [n \in DOMAIN listeners \ {loc[t].name} |-> listeners[n]]
  /\ loc' = [loc EXCEPT ![t].res = Nil]
  /\ Goto(t, "rl_ret")
  /\ hist' = [hist EXCEPT !.removed = @ \cup Removal(t)]
  /\ UNCHANGED <<ring, ringLock, listenerLock, chans, reachable, subscribed,
                 pending, crashed, seq, extra, calls>>

\* the deferred r.listenerLock.Unlock() and the return
RemoveListenerReturn(t) ==
  /\ Running(t, "rl_ret")
  /\ listenerLock' = Unlocked(listenerLock)
  /\ Goto(t, "idle")
  /\ loc' = [loc EXCEPT ![t] = NoLoc]
  /\ UNCHANGED <<ring, ringLock, listeners, chans, reachable, subscribed,
                 pending, crashed, seq, extra, calls, hist>>

(* ------------------------------- Start -------------------------------- *)
\* the owner calls Start on a resolver it has not started yet
StartCall(t) ==
  /\ Running(t, "idle") /\ t = Owner
  /\ Goto(t, "st_lock")
  /\ UNCHANGED <<ring, ringLock, listeners, listenerLock, chans, reachable,
                 subscribed, pending, loc, crashed, seq, extra, calls, hist>>

\* r.ringLock.Lock()
StartLock(t) ==
  /\ \/ Running(t, "st_lock") /\ CanLock(ringLock)
        /\ ringLock' = Locked(ringLock, t)
        /\ Goto(t, IF ringLock.r = {} THEN "st_sub" ELSE "st_wait")
     \/ Running(t, "st_wait") /\ CanEnter(ringLock, t)
        /\ ringLock' = ringLock
        /\ Goto(t, "st_sub")
  /\ UNCHANGED <<ring, listeners, listenerLock, chans, reachable, subscribed,
                 pending, loc, crashed, seq, extra, calls, hist>>

\* r.rp.AddListener(r)
StartSubscribe(t) ==
  /\ Running(t, "st_sub")
  /\ subscribed' = TRUE
  /\ Goto(t, "st_fetch")
  /\ UNCHANGED <<ring, ringLock, listeners, listenerLock, chans, reachable,
                 pending, loc, crashed, seq, extra, calls, hist>>

\* (a Start that takes the resolver off ringpop again when the fetch fails)
StartFetchUnsubscribeOnError(t) ==
  /\ Running(t, "st_fetch")
  /\ \/ /\ loc' = [loc EXCEPT ![t].res = ErrFetch]
        /\ subscribed' = FALSE
        /\ Goto(t, "st_ret")
     \/ LET addrs == GetReachableMembers(Service)
        IN /\ loc' = [loc EXCEPT ![t].addrs = addrs, ![t].got = addrs, ![t].res = Nil]
           /\ subscribed' = subscribed
           /\ Goto(t, IF addrs = {} THEN "st_ret" ELSE "st_add")
  /\ UNCHANGED <<ring, ringLock, listeners, listenerLock, chans, reachable,
                 pending, crashed, seq, extra, calls, hist>>

\* addrs, err := r.rp.GetReachableMembers(...); if err != nil { return err }
StartFetch(t) ==
  /\ Running(t, "st_fetch")
  /\ \/ /\ loc' = [loc EXCEPT ![t].res = ErrFetch]
        /\ Goto(t, "st_ret")
     \/ LET addrs == GetReachableMembers(Service)
        IN /\ loc' = [loc EXCEPT ![t].addrs = addrs, ![t].got = addrs, ![t].res = Nil]
           /\ Goto(t, IF addrs = {} THEN "st_ret" ELSE "st_add")
  /\ UNCHANGED <<ring, ringLock, listeners, listenerLock, chans, reachable,
                 subscribed, pending, crashed, seq, extra, calls, hist>>

\* one turn of the loop: r.ring.AddMembers(NewHostInfo(addr, labels))
StartAdd(t) ==
  /\ Running(t, "st_add")
  /\ \E m \in loc[t].addrs :
       /\ ring' = ring \cup {NewHostInfo(m, getLabelsMap).addr}
       /\ loc' = [loc EXCEPT ![t].addrs = @ \ {m}]
       /\ Goto(t, IF loc[t].addrs = {m} THEN "st_ret" ELSE "st_add")
  /\ UNCHANGED <<ringLock, listeners, listenerLock, chans, reachable,
                 subscribed, pending, crashed, seq, extra, calls, hist>>

\* the deferred r.ringLock.Unlock() and the return of err or nil
StartReturn(t) ==
  /\ Running(t, "st_ret")
  /\ ringLock' = Unlocked(ringLock)
  /\ Goto(t, IF loc[t].res = Nil THEN "started" ELSE "idle")
  /\ loc' = [loc EXCEPT ![t] = NoLoc]
  /\ Commit
  /\ UNCHANGED <<ring, listeners, listenerLock, chans, reachable, subscribed,
                 pending, crashed, seq, extra, calls>>

(* -------------------------------- Stop -------------------------------- *)
\* the owner calls Stop, once
StopCall(t) ==
  /\ ~crashed /\ t = Owner /\ pc[t] \in {"idle", "started"}
  /\ Goto(t, "sp_lock")
  /\ UNCHANGED <<ring, ringLock, listeners, listenerLock, chans, reachable,
                 subscribed, pending, loc, crashed, seq, extra, calls, hist>>

\* r.ringLock.Lock()
StopLockRing(t) ==
  /\ \/ Running(t, "sp_lock") /\ CanLock(ringLock)
        /\ ringLock' = Locked(ringLock, t)
        /\ Goto(t, IF ringLock.r = {} THEN "sp_lock2" ELSE "sp_wait")
     \/ Running(t, "sp_wait") /\ CanEnter(ringLock, t)
        /\ ringLock' = ringLock
        /\ Goto(t, "sp_lock2")
  /\ UNCHANGED <<ring, listeners, listenerLock, chans, reachable, subscribed,
                 pending, loc, crashed, seq, extra, calls, hist>>

\* r.listenerLock.Lock()
StopLockListeners(t) ==
  /\ \/ Running(t, "sp_lock2") /\ CanLock(listenerLock)
        /\ listenerLock' = Locked(listenerLock, t)
        /\ Goto(t, IF listenerLock.r = {} THEN "sp_body" ELSE "sp_wait2")
     \/ Running(t, "sp_wait2") /\ CanEnter(listenerLock, t)
        /\ listenerLock' = listenerLock
        /\ Goto(t, "sp_body")
  /\ UNCHANGED <<ring, ringLock, listeners, chans, reachable, subscribed,
                 pending, loc, crashed, seq, extra, calls, hist>>

\* (a Stop that leaves the registry as it is)
StopBodyKeepListeners(t) ==
  /\ Running(t, "sp_body")
  /\ subscribed' = FALSE
  /\ ring' = {}
  /\ listeners' = listeners
  /\ hist' = [hist EXCEPT !.stopChans = Range(listeners)]
  /\ Goto(t, "sp_unlock")
  /\ UNCHANGED <<ringLock, listenerLock, chans, reachable, pending, loc,
                 crashed, seq, extra, calls>>

\* r.rp.RemoveListener(r); r.ring = hashring.New(...); r.listeners = make(...)
StopBody(t) ==
  /\ Running(t, "sp_body")
  /\ subscribed' = FALSE
  /\ ring' = {}
  /\ listeners' = EmptyMap
  /\ hist' = [hist EXCEPT !.stopChans = Range(listeners)]
  /\ Goto(t, "sp_unlock")
  /\ UNCHANGED <<ringLock, listenerLock, chans, reachable, pending, loc,
                 crashed, seq, extra, calls>>

\* the deferred r.ringLock.Unlock(), which runs first
StopUnlockRing(t) ==
  /\ Running(t, "sp_unlock")
  /\ ringLock' = Unlocked(ringLock)
  /\ Goto(t, "sp_unlock2")
  /\ Commit
  /\ UNCHANGED <<ring, listeners, listenerLock, chans, reachable, subscribed,
                 pending, loc, crashed, seq, extra, calls>>

\* (a Stop that returns without the deferred r.listenerLock.Unlock())
StopReturnKeepLock(t) ==
  /\ Running(t, "sp_unlock2")
  /\ Goto(t, "stopped")
  /\ UNCHANGED <<ring, ringLock, listeners, listenerLock, chans, reachable,
                 subscribed, pending, loc, crashed, seq, extra, calls, hist>>

\* the deferred r.listenerLock.Unlock() and the return
StopReturn(t) ==
  /\ Running(t, "sp_unlock2")
  /\ listenerLock' = Unlocked(listenerLock)
  /\ Goto(t, "stopped")
  /\ UNCHANGED <<ring, ringLock, listeners, chans, reachable, subscribed,
                 pending, loc, crashed, seq, extra, calls, hist>>

(* ---------------------- HandleEvent and refresh ----------------------- *)
\* (a HandleEvent without the type check: every event starts a refresh)
HandleEventAnyKind(t, e, keep) ==
  /\ Running(t, "idle") /\ t \in Handlers
  /\ e \in pending
  /\ IF keep
     THEN extra < MaxExtra /\ extra' = extra + 1 /\ pending' = pending
     ELSE extra' = extra /\ pending' = pending \ {e}
  /\ Goto(t, "rf_lock") /\ loc' = [loc EXCEPT ![t].ev = e]
  /\ hist' = [hist EXCEPT !.ignored = @ \/ e.kind # "ring"]
  /\ UNCHANGED <<ring, ringLock, listeners, listenerLock, chans, reachable,
                 subscribed, crashed, seq, calls>>

\* (a HandleEvent that calls emitEvent and leaves refresh out)
HandleEventEmitOnly(t, e, keep) ==
  /\ Running(t, "idle") /\ t \in Handlers
  /\ e \in pending
  /\ IF keep
     THEN extra < MaxExtra /\ extra' = extra + 1 /\ pending' = pending
     ELSE extra' = extra /\ pending' = pending \ {e}
  /\ IF e.kind = "ring"
     THEN Goto(t, "em_rlock") /\ loc' = [loc EXCEPT ![t].ev = e]
     ELSE pc' = pc /\ loc' = loc
  /\ hist' = [hist EXCEPT !.ignored = @ \/ e.kind # "ring"]
  /\ UNCHANGED <<ring, ringLock, listeners, listenerLock, chans, reachable,
                 subscribed, crashed, seq, calls>>

\* The goroutine ringpop started for event e runs HandleEvent:
\* e, ok := event.(events.RingChangedEvent); events of another kind end it.
\* keep: ringpop delivers the same event once more later on.
HandleEvent(t, e, keep) ==
  /\ Running(t, "idle") /\ t \in Handlers
  /\ e \in pending
  /\ IF keep
     THEN extra < MaxExtra /\ extra' = extra + 1 /\ pending' = pending
     ELSE extra' = extra /\ pending' = pending \ {e}
  /\ IF e.kind = "ring"
     THEN Goto(t, "rf_lock") /\ loc' = [loc EXCEPT ![t].ev = e]
     ELSE pc' = pc /\ loc' = loc
  /\ hist' = [hist EXCEPT !.ignored = @ \/ e.kind # "ring"]
  /\ UNCHANGED <<ring, ringLock, listeners, listenerLock, chans, reachable,
                 subscribed, crashed, seq, calls>>

\* refresh: r.ringLock.Lock()
refreshLock(t) ==
  /\ \/ Running(t, "rf_lock") /\ CanLock(ringLock)
        /\ ringLock' = Locked(ringLock, t)
        /\ Goto(t, IF ringLock.r = {} THEN "rf_fetch" ELSE "rf_wait")
     \/ Running(t, "rf_wait") /\ CanEnter(ringLock, t)
        /\ ringLock' = ringLock
        /\ Goto(t, "rf_fetch")
  /\ UNCHANGED <<ring, listeners, listenerLock, chans, reachable, subscribed,
                 pending, loc, crashed, seq, extra, calls, hist>>

\* (a refresh that patches the ring it finds instead of building a new one)
refreshFetchKeepRing(t) ==
  /\ Running(t, "rf_fetch")
  /\ ring' = ring
  /\ \/ /\ crashed' = TRUE
        /\ UNCHANGED <<pc, loc, calls>>
     \/ LET addrs == GetReachableMembers(Service)
        IN /\ loc' = [loc EXCEPT ![t].addrs = addrs, ![t].got = addrs]
           /\ Goto(t, IF addrs = {} THEN "rf_ret" ELSE "rf_add")
           /\ UNCHANGED crashed
  /\ UNCHANGED <<ringLock, listeners, listenerLock, chans, reachable,
                 subscribed, pending, seq, extra, calls, hist>>

\* (a refresh that fetches, but fills the new ring with the old ring patched
\* by the notification's added and removed lists)
refreshFetchFromPayload(t) ==
  /\ Running(t, "rf_fetch")
  /\ ring' = {}
  /\ \/ /\ crashed' = TRUE
        /\ UNCHANGED <<pc, loc, calls>>
     \/ LET addrs == (ring \cup Range(loc[t].ev.ServersAdded))
                       \ Range(loc[t].ev.ServersRemoved)
        IN /\ loc' = [loc EXCEPT ![t].addrs = addrs,
                                 ![t].got = GetReachableMembers(Service)]
           /\ Goto(t, IF addrs = {} THEN "rf_ret" ELSE "rf_add")
           /\ UNCHANGED crashed
  /\ UNCHANGED <<ringLock, listeners, listenerLock, chans, reachable,
                 subscribed, pending, seq, extra, calls, hist>>

\* (a refresh that logs the fetch error and goes on with no address)
refreshFetchSwallowError(t) ==
  /\ Running(t, "rf_fetch")
  /\ ring' = {}
  /\ \/ /\ loc' = [loc EXCEPT ![t].addrs = {}, ![t].got = {}]
        /\ Goto(t, "rf_ret")
     \/ LET addrs == GetReachableMembers(Service)
        IN /\ loc' = [loc EXCEPT ![t].addrs = addrs, ![t].got = addrs]
           /\ Goto(t, IF addrs = {} THEN "rf_ret" ELSE "rf_add")
  /\ UNCHANGED <<ringLock, listeners, listenerLock, chans, reachable,
                 subscribed, pending, crashed, seq, extra, calls, hist>>

\* r.ring = hashring.New(farm.Fingerprint32, 1);
\* addrs, err := r.rp.GetReachableMembers(...); an error ends in logger.Panic
refreshFetch(t) ==
  /\ Running(t, "rf_fetch")
  /\ ring' = {}
  /\ \/ /\ crashed' = TRUE
        /\ UNCHANGED <<pc, loc, calls>>
     \/ LET addrs == GetReachableMembers(Service)
        IN /\ loc' = [loc EXCEPT ![t].addrs = addrs, ![t].got = addrs]
           /\ Goto(t, IF addrs = {} THEN "rf_ret" ELSE "rf_add")
           /\ UNCHANGED crashed
  /\ UNCHANGED <<ringLock, listeners, listenerLock, chans, reachable,
                 subscribed, pending, seq, extra, calls, hist>>

\* one turn of the loop: r.ring.AddMembers(NewHostInfo(addr, r.getLabelsMap()))
refreshAdd(t) ==
  /\ Running(t, "rf_add")
  /\ \E m \in loc[t].addrs :
       /\ ring' = ring \cup {NewHostInfo(m, getLabelsMap).addr}
       /\ loc' = [loc EXCEPT ![t].addrs = @ \ {m}]
       /\ Goto(t, IF loc[t].addrs = {m} THEN "rf_ret" ELSE "rf_add")
  /\ UNCHANGED <<ringLock, listeners, listenerLock, chans, reachable,
                 subscribed, pending, crashed, seq, extra, calls, hist>>

\* the deferred r.ringLock.Unlock(); HandleEvent goes on to emitEvent
refreshReturn(t) ==
  /\ Running(t, "rf_ret")
  /\ ringLock' = Unlocked(ringLock)
  /\ Goto(t, "em_rlock")
  /\ hist' = [hist EXCEPT !.snap = ring, !.refreshed = @ \cup {loc[t].ev.id}]
  /\ UNCHANGED <<ring, listeners, listenerLock, chans, reachable, subscribed,
                 pending, loc, crashed, seq, extra, calls>>

(* ------------------------------ emitEvent ----------------------------- *)
\* the three loops that marshal the ringpop event into a ChangedEvent
HostInfos(addrs) == [i \in DOMAIN addrs |-> NewHostInfo(addrs[i], getLabelsMap)]
\* (a marshalling whose second loop ranges over ServersAdded again)
ChangedEventAddedTwice(rpEvent) ==
  [HostsAdded |-> HostInfos(rpEvent.ServersAdded),
   HostsRemoved |-> HostInfos(rpEvent.ServersAdded),
   HostsUpdated |-> HostInfos(rpEvent.ServersUpdated)]

ChangedEvent(rpEvent) ==
  [HostsAdded |-> HostInfos(rpEvent.ServersAdded),
   HostsRemoved |-> HostInfos(rpEvent.ServersRemoved),
   HostsUpdated |-> HostInfos(rpEvent.ServersUpdated)]

\* the marshalling, then r.listenerLock.RLock(); the range is over the map
\* as it is now
emitEventRLock(t) ==
  /\ Running(t, "em_rlock")
  /\ CanRLock(listenerLock)
  /\ listenerLock' = RLocked(listenerLock, t)
  /\ loc' = [loc EXCEPT ![t].out = ChangedEvent(loc[t].ev),
                        ![t].todo = DOMAIN listeners]
  /\ Goto(t, IF DOMAIN listeners = {} THEN "em_ret" ELSE "em_send")
  /\ UNCHANGED <<ring, ringLock, listeners, chans, reachable, subscribed,
                 pending, crashed, seq, extra, calls, hist>>

\* history: goroutine t's event went onto the channel of the listener named n
Sent(t, n) ==
  [id |-> loc[t].ev.id, name |-> n, ch |-> listeners[n], ev |-> loc[t].out]

\* (a fan-out that gives up at the first full channel)
emitEventSendStopAtFull(t) ==
  /\ Running(t, "em_send")
  /\ \E n \in loc[t].todo :
       /\ chans' = IF Len(chans[listeners[n]]) < ChanCap
                   THEN [chans EXCEPT ![listeners[n]] = Append(@, loc[t].out)]
                   ELSE chans
       /\ hist' = IF Len(chans[listeners[n]]) < ChanCap
                  THEN [hist EXCEPT !.sent = @ \cup {Sent(t, n)}]
                  ELSE hist
       /\ loc' = [loc EXCEPT ![t].todo = @ \ {n}]
       /\ Goto(t, IF loc[t].todo = {n} \/ Len(chans[listeners[n]]) >= ChanCap
                  THEN "em_ret" ELSE "em_send")
  /\ UNCHANGED <<ring, ringLock, listeners, listenerLock, reachable,
                 subscribed, pending, crashed, seq, extra, calls>>

\* (a fan-out whose send has no default case: it waits for room)
emitEventSendBlocking(t) ==
  /\ Running(t, "em_send")
  /\ \E n \in loc[t].todo :
       /\ Len(chans[listeners[n]]) < ChanCap
       /\ chans' = [chans EXCEPT ![listeners[n]] = Append(@, loc[t].out)]
       /\ hist' = [hist EXCEPT !.sent = @ \cup {Sent(t, n)}]
       /\ loc' = [loc EXCEPT ![t].todo = @ \ {n}]
       /\ Goto(t, IF loc[t].todo = {n} THEN "em_ret" ELSE "em_send")
  /\ UNCHANGED <<ring, ringLock, listeners, listenerLock, reachable,
                 subscribed, pending, crashed, seq, extra, calls>>

\* one turn of the range, in the map's order (any): select { case ch <- event:
\* default: log }
emitEventSend(t) ==
  /\ Running(t, "em_send")
  /\ \E n \in loc[t].todo :
       /\ chans' = IF Len(chans[listeners[n]]) < ChanCap
                   THEN [chans EXCEPT ![listeners[n]] = Append(@, loc[t].out)]
                   ELSE chans
       /\ hist' = IF Len(chans[listeners[n]]) < ChanCap
                  THEN [hist EXCEPT !.sent = @ \cup {Sent(t, n)}]
                  ELSE hist
       /\ loc' = [loc EXCEPT ![t].todo = @ \ {n}]
       /\ Goto(t, IF loc[t].todo = {n} THEN "em_ret" ELSE "em_send")
  /\ UNCHANGED <<ring, ringLock, listeners, listenerLock, reachable,
                 subscribed, pending, crashed, seq, extra, calls>>

\* the deferred r.listenerLock.RUnlock(); HandleEvent returns
emitEventReturn(t) ==
  /\ Running(t, "em_ret")
  /\ listenerLock' = RUnlocked(listenerLock, t)
  /\ Goto(t, "idle")
  /\ hist' = [hist EXCEPT !.done = @ \cup {loc[t].ev.id}]
  /\ loc' = [loc EXCEPT ![t] = NoLoc]
  /\ UNCHANGED <<ring, ringLock, listeners, chans, reachable, subscribed,
                 pending, crashed, seq, extra, calls>>

(* ------------------- ringpop and the channels' readers ---------------- *)
RingChangedEvent(id, added, removed, updated) ==
  [id |-> id, kind |-> "ring", ServersAdded |-> InOrder(added),
   ServersRemoved |-> InOrder(removed), ServersUpdated |-> InOrder(updated)]
OtherEvent ==
  [id |-> 0, kind |-> "other", ServersAdded |-> <<>>, ServersRemoved |-> <<>>,
   ServersUpdated |-> <<>>]

\* member m joins or leaves the cluster and ringpop emits a RingChangedEvent
\* to the listeners it has at that moment
Change(m) ==
  /\ ~crashed /\ seq < MaxChanges
  /\ m \notin Stable
  /\ LET S == IF m \in reachable THEN reachable \ {m} ELSE reachable \cup {m}
     IN /\ reachable' = S
        /\ pending' = IF subscribed
                      THEN pending \cup {RingChangedEvent(seq + 1, S \ reachable,
                                                           reachable \ S, {})}
                      ELSE pending
        /\ hist' = [hist EXCEPT
             !.emitted = IF subscribed THEN @ \cup {seq + 1} ELSE @,
             !.removedAt[m] = IF m \in reachable THEN seq + 1 ELSE 0]
  /\ seq' = seq + 1
  /\ UNCHANGED <<ring, ringLock, listeners, listenerLock, chans, subscribed,
                 pc, loc, crashed, extra, calls>>

\* the lists of the notifications ringpop sends beside those of Change:
\* several addresses in one list, in any order, and lists that do not match
\* the members ringpop reports as reachable (events come late, out of order)
Payloads ==
  { [a |-> <<>>, r |-> <<"B">>, u |-> <<"Z", "A">>],
    [a |-> <<"B", "A">>, r |-> <<>>, u |-> <<>>] }

\* ringpop emits a RingChangedEvent with the lists p
Announce(p) ==
  /\ ~crashed /\ subscribed /\ seq < MaxChanges
  /\ pending' = pending \cup
       {[id |-> seq + 1, kind |-> "ring", ServersAdded |-> p.a,
         ServersRemoved |-> p.r, ServersUpdated |-> p.u]}
  /\ hist' = [hist EXCEPT !.emitted = @ \cup {seq + 1}]
  /\ seq' = seq + 1
  /\ UNCHANGED <<ring, ringLock, listeners, listenerLock, chans, reachable,
                 subscribed, pc, loc, crashed, extra, calls>>

\* ringpop emits an event of another kind
EmitOther ==
  /\ ~crashed /\ subscribed
  /\ OtherEvent \notin pending
  /\ pending' = pending \cup {OtherEvent}
  /\ UNCHANGED <<ring, ringLock, listeners, listenerLock, chans, reachable,
                 subscribed, pc, loc, crashed, seq, extra, calls, hist>>

\* a listener reads one event from its channel
Receive(c) ==
  /\ ~crashed /\ chans[c] # <<>>
  /\ chans' = [chans EXCEPT ![c] = Tail(@)]
  /\ UNCHANGED <<ring, ringLock, listeners, listenerLock, reachable,
                 subscribed, pending, pc, loc, crashed, seq, extra, calls, hist>>

(* ------------------------------- Spec --------------------------------- *)
\* the owner: Start (again after a failed Start), then Stop, once
OwnerStep ==
  \/ StartCall(Owner)
  \/ StartLock(Owner)
  \/ StartSubscribe(Owner)
  \/ StartFetch(Owner)
  \/ StartAdd(Owner)
  \/ StartReturn(Owner)
  \/ StopCall(Owner)
  \/ StopLockRing(Owner)
  \/ StopLockListeners(Owner)
  \/ StopBody(Owner)
  \/ StopUnlockRing(Owner)
  \/ StopReturn(Owner)

LookupStep ==
  \/ \E t \in Callers : \E k \in Keys : LookupCall(t, k)
  \/ \E t \in Callers : LookupRLock(t)
  \/ \E t \in Callers : LookupRead(t)
  \/ \E t \in Callers : LookupReturn(t)

ListenerStep ==
  \/ \E t \in Callers : \E n \in Names : \E c \in Chans : AddListenerCall(t, n, c)
  \/ \E t \in Callers : AddListenerLock(t)
  \/ \E t \in Callers : AddListenerBody(t)
  \/ \E t \in Callers : AddListenerReturn(t)
  \/ \E t \in Callers : \E n \in Names : RemoveListenerCall(t, n)
  \/ \E t \in Callers : RemoveListenerLock(t)
  \/ \E t \in Callers : RemoveListenerBody(t)
  \/ \E t \in Callers : RemoveListenerReturn(t)

\* a handler goroutine, up to the fan-out
HandlerStep ==
  \/ \E t \in Handlers : \E e \in pending : HandleEvent(t, e, FALSE)
  \/ \E t \in Handlers : refreshLock(t)
  \/ \E t \in Handlers : refreshFetch(t)
  \/ \E t \in Handlers : refreshAdd(t)
  \/ \E t \in Handlers : refreshReturn(t)
  \/ \E t \in Handlers : emitEventRLock(t)
  \/ \E t \in Handlers : emitEventReturn(t)

\* the fan-out to the registered channels and their readers
ChannelStep ==
  \/ \E t \in Handlers : emitEventSend(t)
  \/ \E c \in Chans : Receive(c)

RingpopStep == \E m \in Members : Change(m)

\* ringpop delivers an event twice, or an event of another kind
ExtraStep ==
  \/ \E t \in Handlers : \E e \in pending : HandleEvent(t, e, TRUE)
  \/ EmitOther

\* the whole program.  Lookup touches the ring and its lock only, AddListener
\* and RemoveListener the registry and its lock only; the properties are
\* checked on the programs below, each a part of this one.
Next ==
  \/ OwnerStep \/ LookupStep \/ ListenerStep \/ HandlerStep \/ ChannelStep
  \/ RingpopStep \/ ExtraStep
Spec == Init /\ [][Next]_vars

\* the program whose callers only look keys up: no listener is ever registered
NextLookup == OwnerStep \/ LookupStep \/ HandlerStep \/ RingpopStep \/ ExtraStep
SpecLookup == Init /\ [][NextLookup]_vars

\* the program whose callers only register and remove listeners, with every
\* event delivered once
NextListeners == OwnerStep \/ ListenerStep \/ HandlerStep \/ ChannelStep \/ RingpopStep
SpecListeners == Init /\ [][NextListeners]_vars

\* the fan-out alone: nobody reads the channels
SendStep == \E t \in Handlers : emitEventSend(t)

\* the steps goroutine t takes inside an operation it has begun
Progress(t) ==
  \/ StartLock(t) \/ StartSubscribe(t) \/ StartFetch(t) \/ StartAdd(t)
  \/ StartReturn(t)
  \/ StopLockRing(t) \/ StopLockListeners(t) \/ StopBody(t)
  \/ StopUnlockRing(t) \/ StopReturn(t)
  \/ LookupRLock(t) \/ LookupRead(t) \/ LookupReturn(t)
  \/ AddListenerLock(t) \/ AddListenerBody(t) \/ AddListenerReturn(t)
  \/ RemoveListenerLock(t) \/ RemoveListenerBody(t) \/ RemoveListenerReturn(t)
  \/ refreshLock(t) \/ refreshFetch(t) \/ refreshAdd(t) \/ refreshReturn(t)
  \/ emitEventRLock(t) \/ emitEventSend(t) \/ emitEventReturn(t)

\* The Go scheduler runs every goroutine that can run, and sync.RWMutex
\* starves nobody: a waiting writer turns new readers away, and Unlock lets
\* the readers that wait in before the next writer.  So a goroutine whose
\* next step is possible again and again takes it.
Fairness == \A t \in Threads : SF_vars(Progress(t))

\* newRingpopServiceResolver in a cluster whose first membership change (B
\* joined) lies before the resolver was built
InitLate ==
  /\ ring = {}
  /\ ringLock = FreeLock
  /\ listeners = EmptyMap
  /\ listenerLock = FreeLock
  /\ chans = [c \in Chans |-> <<>>]
  /\ reachable = InitiallyUp \cup {"B"}
  /\ subscribed = FALSE
  /\ pending = {}
  /\ pc = [t \in Threads |-> "idle"]
  /\ loc = [t \in Threads |-> NoLoc]
  /\ crashed = FALSE
  /\ seq = 1
  /\ extra = 0
  /\ calls = 0
  /\ hist = [snap |-> {}, done |-> {}, emitted |-> {},
             removedAt |-> [m \in Members |-> 0], stopChans |-> {}, reReg |-> {},
             ignored |-> FALSE, refreshed |-> {}, sent |-> {}, removed |-> {}]

\* the program with every operation, its callers making Lookup, AddListener
\* and RemoveListener calls in any order, under fair scheduling; the channels
\* are never read
NextAll ==
  \/ OwnerStep \/ LookupStep \/ ListenerStep \/ HandlerStep \/ SendStep
  \/ RingpopStep
SpecFair == InitLate /\ [][NextAll]_vars /\ Fairness

\* newRingpopServiceResolver followed by AddListener("x", ch1) and
\* AddListener("y", ch2), before Start
InitRegistered ==
  /\ ring = {}
  /\ ringLock = FreeLock
  /\ listeners = ("x" :> "ch1") @@ ("y" :> "ch2")
  /\ listenerLock = FreeLock
  /\ chans = [c \in Chans |-> <<>>]
  /\ reachable = InitiallyUp
  /\ subscribed = FALSE
  /\ pending = {}
  /\ pc = [t \in Threads |-> "idle"]
  /\ loc = [t \in Threads |-> NoLoc]
  /\ crashed = FALSE
  /\ seq = 0
  /\ extra = 0
  /\ calls = 0
  /\ hist = [snap |-> {}, done |-> {}, emitted |-> {},
             removedAt |-> [m \in Members |-> 0], stopChans |-> {}, reReg |-> {},
             ignored |-> FALSE, refreshed |-> {}, sent |-> {}, removed |-> {}]

\* newRingpopServiceResolver followed by AddListener("x", ch1) and
\* AddListener("y", ch1), one channel under two names, before Start
InitShared ==
  /\ ring = {}
  /\ ringLock = FreeLock
  /\ listeners = ("x" :> "ch1") @@ ("y" :> "ch1")
  /\ listenerLock = FreeLock
  /\ chans = [c \in Chans |-> <<>>]
  /\ reachable = InitiallyUp
  /\ subscribed = FALSE
  /\ pending = {}
  /\ pc = [t \in Threads |-> "idle"]
  /\ loc = [t \in Threads |-> NoLoc]
  /\ crashed = FALSE
  /\ seq = 0
  /\ extra = 0
  /\ calls = 0
  /\ hist = [snap |-> {}, done |-> {}, emitted |-> {},
             removedAt |-> [m \in Members |-> 0], stopChans |-> {}, reReg |-> {},
             ignored |-> FALSE, refreshed |-> {}, sent |-> {}, removed |-> {}]

\* the program of the listener calls on a resolver that has one channel
\* registered under two names
SpecShared == InitShared /\ [][NextListeners]_vars

\* the program whose two listeners registered before Start and never read
\* their channels, under fair scheduling
NextNoDrain == OwnerStep \/ HandlerStep \/ SendStep \/ RingpopStep
SpecNoDrain == InitRegistered /\ [][NextNoDrain]_vars /\ Fairness

\* the program whose two listeners registered before Start, with
\* notifications of every shape and events of another kind
AnnounceStep == \E p \in Payloads : Announce(p)
NextEmit ==
  \/ OwnerStep \/ HandlerStep \/ ChannelStep \/ RingpopStep \/ AnnounceStep
  \/ EmitOther
SpecEmit == InitRegistered /\ [][NextEmit]_vars

(* ============================ properties ============================== *)
LkPcs == {"lk_rlock", "lk_read", "lk_ret"}
StopPcs == {"sp_lock", "sp_wait", "sp_lock2", "sp_wait2", "sp_body",
            "sp_unlock", "sp_unlock2", "stopped"}
ServiceMembers == {m \in Members : RoleOf(m) = Service}

\* C1: a Lookup that has read the ring holds the value of its key on the
\* ring as the last exclusive holder of the ring lock left it (the complete
\* ring before the refresh in progress, or the complete ring a finished
\* refresh built), never the value on an emptied or half-filled ring.
C1_LookupSeesWholeRing ==
  \A t \in Callers :
    pc[t] = "lk_ret" => Returned(t) = LookupValue(hist.snap, loc[t].key)

\* C1 witness: a Lookup holds its result while a refresh waits for the lock
C1_Witness ==
  \E t \in Callers : \E h \in Handlers :
    /\ pc[t] = "lk_ret" /\ Returned(t).err = Nil
    /\ pc[h] = "rf_wait"

\* C2 (as claimed): once Stop has returned, a Lookup that has read the ring
\* holds ErrInsufficientHosts and no host.
C2_AfterStopInsufficientHosts ==
  pc[Owner] = "stopped" =>
    \A t \in Callers :
      pc[t] = "lk_ret" => Returned(t) = [host |-> {}, err |-> ErrInsufficientHosts]

\* the handlers and events that have not finished: the notifications in flight
Quiet == pending = {} /\ \A h \in Handlers : pc[h] = "idle"

\* the last membership change was announced to the resolver, every
\* announcement has been handled to the end, and Stop has not been called
Settled ==
  /\ seq >= 1 /\ seq \in hist.emitted /\ hist.emitted \subseteq hist.done
  /\ Quiet
  /\ pc[Owner] \notin StopPcs

\* C4: on a resolver that has not been stopped, once the last membership
\* change has been announced and every announced notification has been
\* handled to the end (in any order, twice, overlapping), the ring holds
\* exactly the reachable members that carry the resolver's service.
C4_RingEqualsSource == Settled => ring = {m \in reachable : RoleOf(m) = Service}

\* C4 witness: two changes, the second one a member leaving, all handled
C4_Witness == Settled /\ seq = 2 /\ ring # {} /\ ServiceMembers \ reachable # {}

\* member m has left, the notification of its leaving has been handled to the
\* end, and m has not come back
GoneAndHandled(m) ==
  /\ m \notin reachable
  /\ hist.removedAt[m] # 0 /\ hist.removedAt[m] \in hist.done

\* C5: once the notification that reported m's removal has been handled to
\* the end, and while m stays out of the membership source, no Lookup holds
\* m as its result, for any key.
C5_RemovedNeverReturned ==
  \A m \in Members :
    GoneAndHandled(m) =>
      \A t \in Callers :
        pc[t] = "lk_ret" => \A h \in Returned(t).host : h.addr # m

\* C5 witness: A has left and that has been handled; a Lookup returns B
C5_Witness ==
  /\ GoneAndHandled("A")
  /\ \E t \in Callers : pc[t] = "lk_ret" /\ Returned(t).host # {}

\* a step of Lookup by goroutine t
IsLookupStep(t) ==
  /\ pc'[t] # pc[t]
  /\ pc[t] \in LkPcs \/ pc'[t] \in LkPcs

\* C8: a Lookup that reads a ring with no member holds ErrInsufficientHosts
\* and no host, whatever the key, and no step of Lookup changes the ring or
\* the listener registry.
C8_EmptyRingInsufficientHosts ==
  /\ [](\A t \in Callers :
         pc[t] = "lk_ret" /\ ring = {} =>
           Returned(t) = [host |-> {}, err |-> ErrInsufficientHosts])
  /\ [][\A t \in Callers :
          IsLookupStep(t) => ring' = ring /\ listeners' = listeners]_vars

\* C8 witness: a Lookup on a started resolver whose ring a refresh emptied
C8_Witness ==
  /\ pc[Owner] = "started" /\ ring = {} /\ hist.done # {}
  /\ \E t \in Callers : pc[t] = "lk_ret"

\* C10 (as claimed): when Start is about to return nil, the ring holds
\* exactly the members that this Start fetched.
C10_StartRingIsFetched ==
  pc[Owner] = "st_ret" /\ loc[Owner].res = Nil => ring = loc[Owner].got

\* C3: once Stop has returned, a channel that was registered when Stop ran,
\* and has not been registered again since, gets no further event, whatever
\* the handlers in flight do.
C3_NoEventAfterStop ==
  [][pc[Owner] = "stopped" =>
       \A c \in hist.stopChans \ hist'.reReg : Len(chans'[c]) <= Len(chans[c])]_vars

\* C3 witness: after Stop has returned, a handler that was in flight has
\* gone through its fan-out, and the channel Stop found registered is empty
C3_Witness ==
  /\ pc[Owner] = "stopped" /\ hist.reReg = {}
  /\ \E c \in hist.stopChans : chans[c] = <<>>
  /\ \E h \in Handlers : pc[h] = "em_ret"

\* goroutine t takes the turn of the fan-out for the listener named n
IsSendTurn(t, n) ==
  pc[t] = "em_send" /\ n \in loc[t].todo /\ loc'[t].todo = loc[t].todo \ {n}

\* C6: every turn of the fan-out enqueues the event on a channel that has
\* room and leaves a full channel as it is, and the fan-out goes on to the
\* listeners that are left: it ends only when every listener has had its
\* turn, in whatever order they come.
C6_FullChannelDoesNotBlockOthers ==
  /\ [][\A t \in Handlers : \A n \in Names :
          IsSendTurn(t, n) =>
            /\ chans'[listeners[n]] =
                 IF Len(chans[listeners[n]]) < ChanCap
                 THEN Append(chans[listeners[n]], loc[t].out)
                 ELSE chans[listeners[n]]
            /\ \A c \in Chans \ {listeners[n]} : chans'[c] = chans[c]
            /\ pc'[t] = IF loc'[t].todo = {} THEN "em_ret" ELSE "em_send"]_vars
  /\ [](\A t \in Handlers : pc[t] = "em_ret" => loc[t].todo = {})

\* C6 witness: a fan-out has ended with one listener's channel still full of
\* an older event and the other listener's channel holding the new one
C6_Witness ==
  \E t \in Handlers : \E a, b \in DOMAIN listeners :
    /\ pc[t] = "em_ret" /\ listeners[a] # listeners[b]
    /\ Len(chans[listeners[a]]) = ChanCap
    /\ \A i \in DOMAIN chans[listeners[a]] : chans[listeners[a]][i] # loc[t].out
    /\ chans[listeners[b]] = <<loc[t].out>>

\* C7: AddListener on a name that is registered reports
\* ErrListenerAlreadyExist and changes neither the registry nor any channel:
\* the first channel stays under the name.
C7_DuplicateNameRejected ==
  [][\A t \in Callers :
       pc[t] = "al_body" /\ pc'[t] = "al_ret" /\ loc[t].name \in DOMAIN listeners =>
         /\ loc'[t].res = ErrListenerAlreadyExist
         /\ listeners' = listeners /\ chans' = chans]_vars

\* C7 witness: the second AddListener brought another channel and was refused
C7_Witness ==
  \E t \in Callers :
    /\ pc[t] = "al_ret" /\ loc[t].res = ErrListenerAlreadyExist
    /\ listeners[loc[t].name] # loc[t].ch

C11_FailedStartStaysSubscribed ==
  /\ [](pc[Owner] = "st_ret" /\ loc[Owner].res # Nil =>
          loc[Owner].res = ErrFetch /\ subscribed /\ ring = hist.snap)
  /\ [][pc[Owner] = "st_fetch" /\ loc'[Owner].res # Nil =>
          pc'[Owner] = "st_ret" /\ ring' = ring]_vars
  /\ [][pc[Owner] = "st_ret" /\ loc[Owner].res # Nil /\ pc'[Owner] # "st_ret" =>
          pc'[Owner] = "idle" /\ subscribed' /\ ring' = ring]_vars
  /\ [][pc[Owner] = "idle" /\ subscribed /\ seq' # seq =>
          \E e \in pending' \ pending : e.kind = "ring" /\ e.id = seq']_vars

\* C11 witness: Start has failed and returned, a member has joined since, and
\* the notification of it has been handled to the end
C11_Witness ==
  /\ pc[Owner] = "idle" /\ subscribed
  /\ hist.done # {} /\ ring # {}

\* goroutine t is inside a Lock or RLock of the listener lock that cannot
\* return before someone else releases it
WaitsForListenerLock(t) ==
  \/ pc[t] \in {"sp_lock2", "al_lock", "rl_lock"} /\ ~CanLock(listenerLock)
  \/ pc[t] \in {"sp_wait2", "al_wait", "rl_wait"} /\ ~CanEnter(listenerLock, t)
  \/ pc[t] = "em_rlock" /\ ~CanRLock(listenerLock)

\* C12 (as claimed): a Lookup never waits for the listener lock to be
\* released, directly or through the goroutine it waits for: when its RLock
\* of the ring lock cannot return, the goroutine that has the ring lock is
\* not itself waiting for the listener lock.
C12_LookupNeverWaitsForListenerLock ==
  \A t \in Callers :
    ~crashed /\ pc[t] = "lk_rlock" /\ ~CanRLock(ringLock) =>
      ~WaitsForListenerLock(ringLock.w)

\* where a goroutine is between two operations
Rest == {"idle", "started", "stopped"}
\* where a goroutine is inside a Lock or RLock of the ring lock
RingLockPcs == {"lk_rlock", "st_lock", "st_wait", "sp_lock", "sp_wait",
                "rf_lock", "rf_wait"}
\* goroutine t has a lock: it holds it, or it is the writer that waits for
\* the readers inside to leave
HasRingLock(t) == ringLock.w = t \/ t \in ringLock.r
HasListenerLock(t) == listenerLock.w = t \/ t \in listenerLock.r

\* C13: no goroutine that has the listener lock is inside a Lock or RLock of
\* the ring lock; the only goroutine that ever has both locks is the one in
\* Stop, which took the ring lock first; a goroutine between two operations
\* has no lock; and under fair scheduling every operation that has begun
\* comes to its end (or the process has died in logger.Panic), whatever the
\* other goroutines do.
C13_NoDeadlock ==
  /\ [](\A t \in Threads : HasListenerLock(t) => pc[t] \notin RingLockPcs)
  /\ [](\A t \in Threads :
         HasRingLock(t) /\ HasListenerLock(t) =>
           t = Owner /\ pc[t] \in {"sp_lock2", "sp_wait2", "sp_body", "sp_unlock"})
  /\ [][\A t \in Threads :
          HasRingLock(t) /\ ~HasListenerLock(t) /\ HasListenerLock(t)' =>
            pc[t] = "sp_lock2"]_vars
  /\ [](\A t \in Threads :
         pc[t] \in Rest => ~HasRingLock(t) /\ ~HasListenerLock(t))
  /\ \A t \in Threads : (pc[t] \notin Rest) ~> (pc[t] \in Rest \/ crashed)

\* C13 witness: Stop has the ring lock and waits for the listener lock, which
\* a handler in its fan-out holds, while a Lookup waits for the ring lock
C13_Witness ==
  /\ pc[Owner] = "sp_wait2" /\ ~crashed
  /\ \E h \in Handlers : pc[h] \in {"em_send", "em_ret"} /\ h \in listenerLock.r
  /\ \E t \in Callers : pc[t] = "lk_rlock"

\* the handler of notification i is on its way
Handling(i) == \E h \in Handlers : pc[h] # "idle" /\ loc[h].ev.id = i

\* C14: with listeners that never read their channels, a handler in its
\* fan-out can always take its next turn, full channel or not, and under
\* fair scheduling every notification whose handling has begun is handled to
\* the end of emitEvent (or the process has died in logger.Panic).
C14_HandlingTerminates ==
  /\ [](\A h \in Handlers :
         ~crashed /\ pc[h] = "em_send" => ENABLED emitEventSend(h))
  /\ \A i \in 1..MaxChanges : Handling(i) ~> (i \in hist.done \/ crashed)

\* C14 witness: a fan-out has ended with every registered channel full of an
\* older event, so that no listener got this one
C14_Witness ==
  \E h \in Handlers :
    /\ pc[h] = "em_ret" /\ DOMAIN listeners # {}
    /\ \A n \in DOMAIN listeners :
         /\ Len(chans[listeners[n]]) = ChanCap
         /\ \A i \in DOMAIN chans[listeners[n]] : chans[listeners[n]][i] # loc[h].out

\* C15: what a refresh fetches is the set of reachable members of the
\* service at that moment, whatever its notification lists; when the refresh
\* is about to return, the ring holds exactly what it fetched, nothing of the
\* ring before it and nothing of the notification; and that ring is the one
\* the next holder of the ring lock finds (the last refresh wins).
C15_RingIsOwnFetch ==
  /\ [][\A h \in Handlers :
          pc[h] = "rf_fetch" /\ pc'[h] \in {"rf_add", "rf_ret"} =>
            loc'[h].got = ServiceMembers \cap reachable]_vars
  /\ [](\A h \in Handlers : pc[h] = "rf_ret" => ring = loc[h].got)
  /\ [][\A h \in Handlers :
          pc[h] = "rf_ret" /\ pc'[h] # "rf_ret" => hist'.snap = loc[h].got]_vars

\* C15 witness: a refresh has built its ring for a notification that reports
\* a member added which the ring does not hold (the member has left since),
\* and the ring before it was another one
C15_Witness ==
  \E h \in Handlers :
    /\ pc[h] = "rf_ret" /\ ring # {} /\ hist.snap # ring
    /\ \E i \in DOMAIN loc[h].ev.ServersAdded : loc[h].ev.ServersAdded[i] \notin ring

\* x is the list xs of addresses, one HostInfo for each, in the same order,
\* each labelled role -> service
IsHostList(x, xs) ==
  /\ DOMAIN x = DOMAIN xs
  /\ \A i \in DOMAIN xs :
       x[i].addr = xs[i] /\ x[i].labels = (RoleKey :> Service)

\* C16: the fan-out of a notification goes to every listener registered at
\* that moment, and what a turn of it puts on a channel with room is one
\* event whose three lists are the notification's added, removed and updated
\* addresses as HostInfos, in the notification's order, whatever the ring
\* holds.
C16_EventCarriesNotification ==
  /\ [][\A h \in Handlers :
          pc[h] = "em_rlock" /\ pc'[h] # "em_rlock" =>
            loc'[h].todo = DOMAIN listeners]_vars
  /\ [][\A h \in Handlers : \A n \in Names :
          IsSendTurn(h, n) /\ Len(chans[listeners[n]]) < ChanCap =>
            LET q == chans'[listeners[n]]
            IN /\ Len(q) = Len(chans[listeners[n]]) + 1
               /\ IsHostList(q[Len(q)].HostsAdded, loc[h].ev.ServersAdded)
               /\ IsHostList(q[Len(q)].HostsRemoved, loc[h].ev.ServersRemoved)
               /\ IsHostList(q[Len(q)].HostsUpdated, loc[h].ev.ServersUpdated)]_vars

\* C16 witness: a listener's channel holds an event with removed = [B] and
\* updated = [Z, A] while B is on the ring
C16_Witness ==
  /\ "B" \in ring
  /\ \E c \in Range(listeners) : \E i \in DOMAIN chans[c] :
       /\ IsHostList(chans[c][i].HostsRemoved, <<"B">>)
       /\ IsHostList(chans[c][i].HostsUpdated, <<"Z", "A">>)

IsOtherHandled ==
  \/ OtherEvent \in pending /\ OtherEvent \notin pending'
  \/ ~hist.ignored /\ hist'.ignored

\* C18: a HandleEvent called with an event of another kind changes neither
\* the ring nor the registry nor any channel and takes no lock; its goroutine
\* ends at once, so that every goroutine found in refresh or emitEvent
\* carries a RingChangedEvent.
C18_OtherEventIgnored ==
  /\ [][IsOtherHandled =>
          /\ ring' = ring /\ listeners' = listeners /\ chans' = chans
          /\ ringLock' = ringLock /\ listenerLock' = listenerLock
          /\ pc' = pc /\ loc' = loc /\ reachable' = reachable]_vars
  /\ [](\A h \in Handlers : pc[h] # "idle" => loc[h].ev.kind = "ring")

\* C18 witness: an event of another kind has been handled on a resolver that
\* holds members and two listeners with room, and nothing has been delivered
C18_Witness ==
  /\ hist.ignored /\ hist.done = {} /\ OtherEvent \notin pending
  /\ ring # {} /\ DOMAIN listeners # {}
  /\ \A c \in Chans : chans[c] = <<>>
  /\ \A h \in Handlers : pc[h] = "idle"

C20_RemovedChannelGetsNothing ==
  [][\A a \in hist.removed : Len(chans'[a.ch]) <= Len(chans[a.ch])]_vars

\* C20 (amended): a name that RemoveListener has taken out stays out of the
\* registry until an AddListener registers it anew, and every event that
\* goes onto a channel goes there in a turn of the fan-out for a name
\* that is registered with that channel at that moment; so the channel gets
\* nothing through the removed name, and nothing at all unless it is
\* registered under another name.
C20_NothingThroughRemovedName ==
  /\ [](\A a \in hist.removed : a.name \notin DOMAIN listeners)
  /\ [][\A c \in Chans :
          Len(chans'[c]) > Len(chans[c]) =>
            \E h \in Handlers : \E n \in DOMAIN listeners :
              IsSendTurn(h, n) /\ listeners[n] = c /\ n \in DOMAIN listeners']_vars
  /\ [][\A a \in hist.removed :
          a.ch \notin Range(listeners) => Len(chans'[a.ch]) <= Len(chans[a.ch])]_vars

\* C20 witness: on a started resolver both names of the channel have been
\* taken out; the channel had got an event through its other name, and a
\* fan-out that came after the removals has ended with nothing on the channel
C20_Witness ==
  \E a \in hist.removed : \E h \in Handlers :
    /\ a.ch \notin Range(listeners) /\ pc[Owner] = "started"
    /\ \E b \in hist.sent : b.ch = a.ch /\ b.name # a.name
    /\ pc[h] = "em_ret" /\ chans[a.ch] = <<>>

====
